---- MODULE Spec2Model ----
(***************************************************************************)
(* Model of src/src/device.c of knot-virtualthing: the gateway's device    *)
(* record (struct knot_thing), its sensor registry, the connectivity       *)
(* tracker, the cloud ingress router, the poll callback, the handshake     *)
(* timer slot and the start / destroy sequences.                           *)
(*                                                                         *)
(* device.c calls into collaborators whose code is not in src/: the state  *)
(* machine (sm.c), the change evaluator (knot-config.c), the property      *)
(* loader (properties.c), the poller (poll.c).  Those are modelled from    *)
(* spec.md and are marked so where they are defined.  The ell library      *)
(* (l_hashmap, l_timeout) is modelled by its documented contract.          *)
(***************************************************************************)
EXTENDS Integers, Sequences, FiniteSets, TLC

(***************************************************************************)
(* Bounds of the model.                                                    *)
(***************************************************************************)
\* number of device_set_new_data_item calls explored on one registry
MaxInserts == 3
\* sensor values range over 0..MaxVal
MaxVal == 2
\* timer durations range over 1..MaxSecs
MaxSecs == 7
\* number of l_timeout objects the heap can hold at once
MaxAlloc == 3
\* number of poll ticks explored in one polling session
MaxTicks == 5

(***************************************************************************)
(* Program constants.                                                      *)
(***************************************************************************)
CONNECTED_MASK == 255
MODBUS == 15
CLOUD == 240
DEFAULT_POLLING_INTERVAL == 1
\* "knot id uses 16 characters which fits inside a uint64"
KNOT_PROTOCOL_UUID_LEN == 16
\* the width of a token of the KNoT protocol (knot_protocol.h)
KNOT_PROTOCOL_TOKEN_LEN == 40
\* bucket count of ell's l_hashmap
NBUCKETS == 127

EINVAL == 22

\* the sensor ids the model declares; 1 and 128 share a bucket (128 % 127 = 1)
SensorIds == {1, 2, 128}
Values == 0..MaxVal
Secs == 1..MaxSecs

(***************************************************************************)
(* uint8_t bit operations, as the macro set_conn_bitmask uses them.        *)
(***************************************************************************)
RECURSIVE BitOr(_, _, _)
BitOr(a, b, n) ==
  IF n = 0 THEN 0
  ELSE (IF (a % 2 = 1) \/ (b % 2 = 1) THEN 1 ELSE 0)
       + 2 * BitOr(a \div 2, b \div 2, n - 1)

RECURSIVE BitAndNot(_, _, _)
BitAndNot(a, b, n) ==
  IF n = 0 THEN 0
  ELSE (IF (a % 2 = 1) /\ (b % 2 = 0) THEN 1 ELSE 0)
       + 2 * BitAndNot(a \div 2, b \div 2, n - 1)

\* a macro that adds the link's bits instead of or-ing them
set_conn_bitmask_add(a, b1, b2) ==
  IF a THEN (b1 + b2) % 256 ELSE BitAndNot(b1, b2, 8) % 256

\* #define set_conn_bitmask(a, b1, b2) (a) ? (b1) | (b2) : (b1) & ~(b2)
\* the result is stored in a uint8_t
set_conn_bitmask(a, b1, b2) ==
  IF a THEN BitOr(b1, b2, 8) % 256 ELSE BitAndNot(b1, b2, 8) % 256

(***************************************************************************)
(* ell's l_hashmap with the default (direct) hash, as device.c uses it:    *)
(* the key is the sensor id, the bucket is key % NBUCKETS, each bucket is  *)
(* a chain in insertion order.  l_hashmap_insert appends to the chain and  *)
(* allows duplicate keys; l_hashmap_lookup returns the first entry of the  *)
(* chain whose key matches.  A map is a function from the non-empty        *)
(* bucket indices to their chains.                                         *)
(***************************************************************************)
BucketOf(key) == key % NBUCKETS

Chain(h, b) == IF b \in DOMAIN h THEN h[b] ELSE <<>>

l_hashmap_new == [b \in {} |-> <<>>]

l_hashmap_insert(h, key, value) ==
  LET bk == BucketOf(key) IN
  [b \in (DOMAIN h) \cup {bk} |->
     IF b = bk THEN Append(Chain(h, bk), [key |-> key, value |-> value])
     ELSE h[b]]

RECURSIVE FirstMatch(_, _)
FirstMatch(chain, key) ==
  IF chain = <<>> THEN <<>>
  ELSE IF Head(chain).key = key THEN <<Head(chain).value>>
  ELSE FirstMatch(Tail(chain), key)

\* a lookup that takes the head of the bucket without comparing keys
l_hashmap_lookup_nokey(h, key) ==
  LET c == Chain(h, BucketOf(key)) IN
  IF c = <<>> THEN <<>> ELSE <<Head(c).value>>

\* the result is <<>> for NULL and <<value>> for a hit
l_hashmap_lookup(h, key) == FirstMatch(Chain(h, BucketOf(key)), key)

\* the chains of the buckets `bs`, by ascending bucket index
RECURSIVE ChainsOf(_, _)
ChainsOf(h, bs) ==
  IF bs = {} THEN <<>>
  ELSE LET b == CHOOSE x \in bs : \A y \in bs : x <= y
       IN h[b] \o ChainsOf(h, bs \ {b})

\* the entries in the order l_hashmap_foreach visits them: bucket 0 to
\* NBUCKETS - 1, each chain from its head
l_hashmap_foreach(h) == ChainsOf(h, DOMAIN h)

(***************************************************************************)
(* The state.                                                              *)
(***************************************************************************)
VARIABLES
  id,             \* thing.id: the hex digits of the string, <<>> when empty
  token,          \* thing.token: the characters of the string, <<>> when empty
  has_items,      \* thing.data_items is an allocated map
  data_items,     \* thing.data_items
  msg_to,         \* thing.msg_to: 0 for NULL, else the handle of an l_timeout
  timeouts,       \* the live l_timeout objects: handle -> [secs, armed]
  conn_mask,      \* the static conn_mask of conn_handler
  sm_state,       \* state of the control state machine
  sm_started,     \* sm_start was called
  polls,          \* sensor ids holding a poll schedule, in creation order
  poll_running,   \* poll_start / poll_stop
  config_running, \* config_start / config_stop
  modbus_started, \* iface_modbus_start / iface_modbus_stop
  cloud_started,  \* knot_cloud_start / knot_cloud_stop
  creds_file,     \* the credential store: <<>> or <<[id, token]>>
  phase,          \* "init", "running", "failed" or "destroyed"
  calls,          \* the collaborator calls the last handler made, in order
  last_op,        \* the last handler run, with its inputs and return value
  decl_log,       \* the declarations made so far (device_set_new_data_item)
  tick_log        \* the poll ticks of a polling session, with their outcome

vars == <<id, token, has_items, data_items, msg_to, timeouts,
          conn_mask, sm_state, sm_started, polls, poll_running,
          config_running, modbus_started, cloud_started, creds_file, phase,
          calls, last_op, decl_log, tick_log>>

\* the state as one record, so that a handler's calls compose
Cur ==
  [id |-> id, token |-> token, has_items |-> has_items,
   data_items |-> data_items, msg_to |-> msg_to, timeouts |-> timeouts,
   conn_mask |-> conn_mask,
   sm_state |-> sm_state, sm_started |-> sm_started, polls |-> polls,
   poll_running |-> poll_running, config_running |-> config_running,
   modbus_started |-> modbus_started, cloud_started |-> cloud_started,
   creds_file |-> creds_file, phase |-> phase, calls |-> <<>>,
   decl_log |-> decl_log, tick_log |-> tick_log, ret |-> 0]

Commit(S) ==
  /\ id' = S.id
  /\ token' = S.token
  /\ has_items' = S.has_items
  /\ data_items' = S.data_items
  /\ msg_to' = S.msg_to
  /\ timeouts' = S.timeouts
  /\ conn_mask' = S.conn_mask
  /\ sm_state' = S.sm_state
  /\ sm_started' = S.sm_started
  /\ polls' = S.polls
  /\ poll_running' = S.poll_running
  /\ config_running' = S.config_running
  /\ modbus_started' = S.modbus_started
  /\ cloud_started' = S.cloud_started
  /\ creds_file' = S.creds_file
  /\ phase' = S.phase
  /\ calls' = S.calls
  /\ decl_log' = S.decl_log
  /\ tick_log' = S.tick_log

\* one collaborator call: its name, and the arguments and result it has
Call(fn, evt, list, val, rc) ==
  [fn |-> fn, evt |-> evt, list |-> list, val |-> val, rc |-> rc]

Log(S, c) == [S EXCEPT !.calls = Append(@, c)]

\* the record of a handler: its name, its inputs, its return value
Op(op, kind, list, val, flag, ret) ==
  [op |-> op, kind |-> kind, list |-> list, val |-> val, flag |-> flag,
   ret |-> ret]

(***************************************************************************)
(* The sensor registry.                                                    *)
(***************************************************************************)
\* knot_config: the rule set of a sensor (flags, and the two bounds)
ConfChange == [flags |-> {"change"}, lower |-> 0, upper |-> 0]
ConfUpper == [flags |-> {"upper"}, lower |-> 0, upper |-> 2]

\* the (schema, config, reg_addr, bit_offset) tuples the model declares
Fields ==
  { [schema |-> 1, config |-> ConfChange, reg_addr |-> 10, bit_offset |-> 0],
    [schema |-> 2, config |-> ConfUpper, reg_addr |-> 11, bit_offset |-> 1],
    [schema |-> 1, config |-> ConfUpper, reg_addr |-> 11, bit_offset |-> 0] }

\* struct knot_data_item as l_new leaves it (zeroed) and lines 334-338 fill it
NewDataItem(sensor_id, f) ==
  [sensor_id |-> sensor_id, config |-> f.config, schema |-> f.schema,
   current_val |-> 0, sent_val |-> 0,
   reg_addr |-> f.reg_addr, bit_offset |-> f.bit_offset]

device_set_new_data_item(S, sensor_id, f) ==
  [S EXCEPT
     !.data_items = l_hashmap_insert(@, sensor_id, NewDataItem(sensor_id, f)),
     !.decl_log = Append(@, [sensor_id |-> sensor_id, f |-> f])]

device_data_item_lookup_nokey(S, sensor_id) ==
  l_hashmap_lookup_nokey(S.data_items, sensor_id)

device_data_item_lookup(S, sensor_id) ==
  l_hashmap_lookup(S.data_items, sensor_id)

\* the data item stored under `sensor_id` replaced by `item` (a write through
\* the pointer l_hashmap_lookup returned)
RECURSIVE StoreFirst(_, _, _)
StoreFirst(chain, key, item) ==
  IF chain = <<>> THEN <<>>
  ELSE IF Head(chain).key = key
       THEN <<[key |-> key, value |-> item]>> \o Tail(chain)
       ELSE <<Head(chain)>> \o StoreFirst(Tail(chain), key, item)

StoreItem(S, sensor_id, item) ==
  [S EXCEPT !.data_items =
     [b \in DOMAIN @ |->
        IF b = BucketOf(sensor_id) THEN StoreFirst(@[b], sensor_id, item)
        ELSE @[b]]]

Ret(S, rc) == [S EXCEPT !.ret = rc]

(***************************************************************************)
(* The handshake timer slot (thing.msg_to) over ell's l_timeout: a timeout *)
(* is a heap object armed for `secs` seconds; it fires once and then stays *)
(* allocated, disarmed, until l_timeout_remove frees it or                 *)
(* l_timeout_modify arms it again.                                         *)
(***************************************************************************)
Handles == 1..MaxAlloc

FreeHandles(S) == Handles \ DOMAIN S.timeouts

\* the handle l_timeout_create returns: 0 (NULL) when the heap is full
NewHandle(S) ==
  IF FreeHandles(S) = {} THEN 0
  ELSE CHOOSE h \in FreeHandles(S) : \A g \in FreeHandles(S) : h <= g

l_timeout_create(S, seconds) ==
  LET h == NewHandle(S) IN
  IF h = 0 THEN S
  ELSE [S EXCEPT !.timeouts =
          [g \in (DOMAIN @) \cup {h} |->
             IF g = h THEN [secs |-> seconds, armed |-> TRUE] ELSE @[g]]]

l_timeout_modify(S, h, seconds) ==
  IF h \in DOMAIN S.timeouts
  THEN [S EXCEPT !.timeouts[h] = [secs |-> seconds, armed |-> TRUE]]
  ELSE S

l_timeout_remove(S, h) ==
  [S EXCEPT !.timeouts = [g \in (DOMAIN @) \ {h} |-> @[g]]]

\* a create that does not look at the slot first
device_msg_timeout_create_unguarded(S, seconds) ==
  [l_timeout_create(S, seconds) EXCEPT !.msg_to = NewHandle(S)]

device_msg_timeout_create(S, seconds) ==
  IF S.msg_to # 0 THEN S
  ELSE [l_timeout_create(S, seconds) EXCEPT !.msg_to = NewHandle(S)]

device_msg_timeout_modify(S, seconds) ==
  l_timeout_modify(S, S.msg_to, seconds)

device_msg_timeout_remove(S) ==
  [l_timeout_remove(S, S.msg_to) EXCEPT !.msg_to = 0]

(***************************************************************************)
(* Identity and credentials.                                               *)
(***************************************************************************)
\* a uint64_t is its 16 hex digits, most significant first
RECURSIVE StripZeros(_)
StripZeros(digits) ==
  IF digits = <<>> THEN <<>>
  ELSE IF Head(digits) = 0 THEN StripZeros(Tail(digits))
  ELSE digits

\* sprintf("%" PRIx64): no padding, at least one digit
FormatHex(digits) ==
  IF StripZeros(digits) = <<>> THEN <<0>> ELSE StripZeros(digits)

device_generate_thing_id(S, rnd) == [S EXCEPT !.id = FormatHex(rnd)]

device_clear_thing_id(S) == [S EXCEPT !.id = <<>>]

device_clear_thing_token(S) == [S EXCEPT !.token = <<>>]

device_has_thing_token(S) == S.token # <<>>

\* strncpy(dest, src, n) into a buffer of n + 1 bytes whose last byte is 0:
\* the string in dest is src cut to n characters
Strncpy(src, n) == IF Len(src) <= n THEN src ELSE SubSeq(src, 1, n)

device_set_thing_credentials(S, cid, ctoken) ==
  [S EXCEPT !.id = Strncpy(cid, KNOT_PROTOCOL_UUID_LEN),
            !.token = Strncpy(ctoken, KNOT_PROTOCOL_TOKEN_LEN)]

\* a store that copies the token into the device record first
device_store_credentials_on_file_early(S, tok, store_ok) ==
  LET S0 == [S EXCEPT !.token = Strncpy(tok, KNOT_PROTOCOL_TOKEN_LEN)] IN
  IF ~store_ok
  THEN Ret(Log(S0, Call("properties_store_credentials", "", <<>>, tok, -1)), -1)
  ELSE Ret([Log(S0, Call("properties_store_credentials", "", <<>>, tok, 0))
              EXCEPT !.creds_file = <<[id |-> S.id, token |-> tok]>>], 0)

\* properties_store_credentials fails (rc < 0) or writes the pair
device_store_credentials_on_file(S, tok, store_ok) ==
  IF ~store_ok
  THEN Ret(Log(S, Call("properties_store_credentials", "", <<>>, tok, -1)), -1)
  ELSE Ret([Log(S, Call("properties_store_credentials", "", <<>>, tok, 0))
              EXCEPT !.creds_file = <<[id |-> S.id, token |-> tok]>>,
                     !.token = Strncpy(tok, KNOT_PROTOCOL_TOKEN_LEN)], 0)

device_clear_credentials_on_file(S) ==
  [Log(S, Call("properties_clear_credentials", "", <<>>, 0, 0))
     EXCEPT !.creds_file = <<>>]

(***************************************************************************)
(* Requests to the cloud.                                                  *)
(***************************************************************************)
device_send_register_request(S) ==
  Log(S, Call("knot_cloud_register_device", "", <<>>, 0, 0))

device_send_auth_request(S) ==
  Log(S, Call("knot_cloud_auth_device", "", <<>>, S.token, 0))

RECURSIVE Reverse(_)
Reverse(q) == IF q = <<>> THEN <<>> ELSE Append(Reverse(Tail(q)), Head(q))

\* foreach_send_schema pushes each entry at the head of the queue
SchemaQueue(S) ==
  LET es == l_hashmap_foreach(S.data_items) IN
  Reverse([i \in 1..Len(es) |-> es[i].value.sensor_id])

device_send_schema(S) ==
  Log(S, Call("knot_cloud_update_schema", "", SchemaQueue(S), 0, 0))

\* a publish that records the published value as the sensor's sent value
on_publish_data_marks_sent(S, sensor_id, pub_fail) ==
  LET hit == l_hashmap_lookup(S.data_items, sensor_id) IN
  IF hit = <<>> THEN S
  ELSE StoreItem(
         Log(S, Call("knot_cloud_publish_data", "", <<hit[1].sensor_id>>,
                     hit[1].current_val,
                     IF sensor_id \in pub_fail THEN -1 ELSE 0)),
         sensor_id, [hit[1] EXCEPT !.sent_val = hit[1].current_val])

\* on_publish_data: one id of a list; pub_fail are the ids whose publish fails
on_publish_data(S, sensor_id, pub_fail) ==
  LET hit == l_hashmap_lookup(S.data_items, sensor_id) IN
  IF hit = <<>> THEN S
  ELSE Log(S, Call("knot_cloud_publish_data", "", <<hit[1].sensor_id>>,
                   hit[1].current_val,
                   IF sensor_id \in pub_fail THEN -1 ELSE 0))

\* a list publication that gives up at the first publish that fails
RECURSIVE device_publish_data_list_stop(_, _, _)
device_publish_data_list_stop(S, sensor_id_list, pub_fail) ==
  IF sensor_id_list = <<>> THEN S
  ELSE LET S1 == on_publish_data(S, Head(sensor_id_list), pub_fail) IN
       IF S1.calls # S.calls /\ S1.calls[Len(S1.calls)].rc < 0 THEN S1
       ELSE device_publish_data_list_stop(S1, Tail(sensor_id_list), pub_fail)

RECURSIVE device_publish_data_list(_, _, _)
device_publish_data_list(S, sensor_id_list, pub_fail) ==
  IF sensor_id_list = <<>> THEN S
  ELSE device_publish_data_list(
         on_publish_data(S, Head(sensor_id_list), pub_fail),
         Tail(sensor_id_list), pub_fail)

\* foreach_publish_all_data hands each entry's sensor_id to on_publish_data
device_publish_data_all(S, pub_fail) ==
  LET es == l_hashmap_foreach(S.data_items) IN
  device_publish_data_list(
    S, [i \in 1..Len(es) |-> es[i].value.sensor_id], pub_fail)

device_start_config(S, cfg_ok) ==
  IF ~cfg_ok THEN Ret(Log(S, Call("config_start", "", <<>>, 0, -1)), -1)
  ELSE LET es == l_hashmap_foreach(S.data_items) IN
       Ret([Log(Log(S, Call("config_start", "", <<>>, 0, 0)),
                Call("config_add_data_item", "",
                     [i \in 1..Len(es) |-> es[i].value.sensor_id], 0, 0))
              EXCEPT !.config_running = TRUE], 0)

config_stop(S) ==
  [Log(S, Call("config_stop", "", <<>>, 0, 0)) EXCEPT !.config_running = FALSE]

device_stop_config(S) == config_stop(S)

(***************************************************************************)
(* The control state machine (sm.c is not in src/): modelled from the      *)
(* transition rules of spec.md 4.5.  An event is handled synchronously     *)
(* inside sm_input_event, which calls back into device.c.  `env` holds     *)
(* what the collaborators answer during this event: the random id drawn,   *)
(* whether the credential store and the config service succeed, and the    *)
(* sensor ids whose cloud publish fails.                                   *)
(***************************************************************************)
T_reg == 1
T_auth == 2
T_sch == 1

\* arm the handshake timer: modify the one in the slot, else create one
ArmTimeout(S, seconds) ==
  IF S.msg_to # 0 THEN device_msg_timeout_modify(S, seconds)
  ELSE device_msg_timeout_create(S, seconds)

CancelTimeout(S) ==
  IF S.msg_to # 0 THEN device_msg_timeout_remove(S) ELSE S

Goto(S, st) == [S EXCEPT !.sm_state = st]

SmReady(S, env) ==
  IF device_has_thing_token(S)
  THEN ArmTimeout(device_send_auth_request(Goto(S, "AUTHENTICATING")), T_auth)
  ELSE LET S1 == IF S.id = <<>> THEN device_generate_thing_id(S, env.rnd)
                 ELSE S
       IN ArmTimeout(device_send_register_request(Goto(S1, "REGISTERING")),
                     T_reg)

SmRegOk(S, tok, env) ==
  LET S1 == device_store_credentials_on_file(S, tok, env.store_ok) IN
  IF S1.ret < 0 THEN Goto(S1, "TERMINAL")
  ELSE ArmTimeout(device_send_auth_request(Goto(S1, "AUTHENTICATING")),
                  T_auth)

SmSchOk(S, env) ==
  LET S1 == device_start_config(Goto(CancelTimeout(S), "ONLINE"), env.cfg_ok)
  IN device_publish_data_all(S1, env.pub_fail)

SmNotReady(S) ==
  LET S1 == CancelTimeout(Goto(S, "DISCONNECTED")) IN
  IF S1.config_running THEN device_stop_config(S1) ELSE S1

SmStep(S, evt, list, tok, env) ==
  IF evt = "EVT_NOT_READY" THEN SmNotReady(S)
  ELSE IF S.sm_state = "DISCONNECTED" /\ evt = "EVT_READY"
    THEN SmReady(S, env)
  ELSE IF S.sm_state = "REGISTERING" /\ evt = "EVT_REG_OK"
    THEN SmRegOk(S, tok, env)
  ELSE IF S.sm_state = "REGISTERING" /\ evt \in {"EVT_REG_NOT_OK", "EVT_TIMEOUT"}
    THEN ArmTimeout(device_send_register_request(S), T_reg)
  ELSE IF S.sm_state = "AUTHENTICATING" /\ evt = "EVT_AUTH_OK"
    THEN ArmTimeout(device_send_schema(Goto(S, "SCHEMA")), T_sch)
  ELSE IF S.sm_state = "AUTHENTICATING" /\ evt = "EVT_AUTH_NOT_OK"
    THEN Goto(device_clear_thing_token(S), "DISCONNECTED")
  ELSE IF S.sm_state = "SCHEMA" /\ evt = "EVT_SCH_OK"
    THEN SmSchOk(S, env)
  ELSE IF S.sm_state = "SCHEMA" /\ evt \in {"EVT_SCH_NOT_OK", "EVT_TIMEOUT"}
    THEN device_send_schema(S)
  ELSE IF S.sm_state = "ONLINE" /\ evt = "EVT_PUB_DATA"
    THEN device_publish_data_list(S, list, env.pub_fail)
  ELSE IF S.sm_state = "ONLINE" /\ evt = "EVT_DATA_UPDT"
    THEN Log(S, Call("iface_modbus_write_data", "", list, 0, 0))
  ELSE IF S.sm_state = "ONLINE" /\ evt = "EVT_UNREG_REQ"
    THEN device_clear_credentials_on_file(Goto(S, "UNREGISTERING"))
  ELSE S

sm_start(S) == [S EXCEPT !.sm_state = "DISCONNECTED", !.sm_started = TRUE]

sm_input_event(S, evt, list, tok, env) ==
  SmStep(Log(S, Call("sm_input_event", evt, list, tok, 0)), evt, list, tok, env)

(***************************************************************************)
(* The change evaluator (knot-config.c is not in src/): modelled from      *)
(* spec.md 4.3.  Positive: publish; zero: hold; negative: invalid rule.    *)
(***************************************************************************)
config_check_value(config, current, sent, value_type) ==
  IF config.flags = {} THEN -1
  ELSE IF \/ "change" \in config.flags /\ current # sent
          \/ "upper" \in config.flags
               /\ current >= config.upper /\ sent < config.upper
          \/ "lower" \in config.flags
               /\ current <= config.lower /\ sent > config.lower
       THEN 1
       ELSE 0

(***************************************************************************)
(* The poller (poll.c is not in src/): modelled from spec.md 4.2.          *)
(***************************************************************************)
poll_create(S, interval, sensor_id, ok) ==
  IF ok THEN [Log(S, Call("poll_create", "", <<sensor_id>>, interval, 0))
                EXCEPT !.polls = Append(@, sensor_id)]
  ELSE Log(S, Call("poll_create", "", <<sensor_id>>, interval, -1))

poll_start(S) ==
  [Log(S, Call("poll_start", "", <<>>, 0, 0)) EXCEPT !.poll_running = TRUE]

poll_stop(S) ==
  [Log(S, Call("poll_stop", "", <<>>, 0, 0)) EXCEPT !.poll_running = FALSE]

poll_destroy(S) ==
  [Log(S, Call("poll_destroy", "", <<>>, 0, 0))
     EXCEPT !.polls = <<>>, !.poll_running = FALSE]

(***************************************************************************)
(* The callbacks device.c registers with its collaborators.                *)
(***************************************************************************)
\* a tracker that reports READY as soon as any bit is set
conn_handler_any(S, conn, is_up, env) ==
  LET m == set_conn_bitmask(is_up, S.conn_mask, conn)
      S1 == [S EXCEPT !.conn_mask = m]
  IN IF m = 0 THEN sm_input_event(S1, "EVT_NOT_READY", <<>>, 0, env)
  ELSE sm_input_event(S1, "EVT_READY", <<>>, 0, env)

\* a tracker that reports to the state machine only when the combined
\* readiness changes
conn_handler_edge(S, conn, is_up, env) ==
  LET m == set_conn_bitmask(is_up, S.conn_mask, conn)
      S1 == [S EXCEPT !.conn_mask = m]
  IN IF (m = CONNECTED_MASK) = (S.conn_mask = CONNECTED_MASK) THEN S1
     ELSE IF m # CONNECTED_MASK
     THEN sm_input_event(S1, "EVT_NOT_READY", <<>>, 0, env)
     ELSE sm_input_event(S1, "EVT_READY", <<>>, 0, env)

conn_handler(S, conn, is_up, env) ==
  LET m == set_conn_bitmask(is_up, S.conn_mask, conn)
      S1 == [S EXCEPT !.conn_mask = m]
  IN IF m # CONNECTED_MASK
     THEN sm_input_event(S1, "EVT_NOT_READY", <<>>, 0, env)
     ELSE sm_input_event(S1, "EVT_READY", <<>>, 0, env)

\* a cloud-down handler that also pauses the poller
on_cloud_disconnected_stops_poll(S, env) ==
  conn_handler(poll_stop(S), CLOUD, FALSE, env)

on_cloud_disconnected(S, env) == conn_handler(S, CLOUD, FALSE, env)

on_cloud_connected(S, env) == conn_handler(S, CLOUD, TRUE, env)

on_modbus_disconnected(S, env) == conn_handler(poll_stop(S), MODBUS, FALSE, env)

on_modbus_connected(S, env) == conn_handler(poll_start(S), MODBUS, TRUE, env)

\* an expiry callback that forgets the expired timer
on_msg_timeout_clears_slot(S, env) ==
  sm_input_event([S EXCEPT !.msg_to = 0], "EVT_TIMEOUT", <<>>, 0, env)

on_msg_timeout(S, env) == sm_input_event(S, "EVT_TIMEOUT", <<>>, 0, env)

on_config_timeout(S, sensor_id, env) ==
  sm_input_event(S, "EVT_PUB_DATA", <<sensor_id>>, 0, env)

\* the kinds of struct knot_cloud_msg; "OTHER_MSG" is any value past the enum
MsgTypes == {"UPDATE_MSG", "REQUEST_MSG", "REGISTER_MSG", "UNREGISTER_MSG",
             "AUTH_MSG", "SCHEMA_MSG", "LIST_MSG", "MSG_TYPES_LENGTH",
             "OTHER_MSG"}

\* a router that forwards a REQUEST without looking at its error flag
on_cloud_receive_noerr(S, msg, env) ==
  IF msg.type = "UPDATE_MSG" THEN
    Ret(IF ~msg.error
        THEN sm_input_event(S, "EVT_DATA_UPDT", msg.list, 0, env) ELSE S, 1)
  ELSE IF msg.type = "REQUEST_MSG" THEN
    Ret(sm_input_event(S, "EVT_PUB_DATA", msg.list, 0, env), 1)
  ELSE IF msg.type = "REGISTER_MSG" THEN
    Ret(IF msg.error
        THEN sm_input_event(S, "EVT_REG_NOT_OK", <<>>, 0, env)
        ELSE sm_input_event(S, "EVT_REG_OK", <<>>, msg.token, env), 1)
  ELSE IF msg.type = "UNREGISTER_MSG" THEN
    Ret(IF ~msg.error
        THEN sm_input_event(S, "EVT_UNREG_REQ", <<>>, 0, env) ELSE S, 1)
  ELSE IF msg.type = "AUTH_MSG" THEN
    Ret(IF msg.error
        THEN sm_input_event(S, "EVT_AUTH_NOT_OK", <<>>, 0, env)
        ELSE sm_input_event(S, "EVT_AUTH_OK", <<>>, 0, env), 1)
  ELSE IF msg.type = "SCHEMA_MSG" THEN
    Ret(IF msg.error
        THEN sm_input_event(S, "EVT_SCH_NOT_OK", <<>>, 0, env)
        ELSE sm_input_event(S, "EVT_SCH_OK", <<>>, 0, env), 1)
  ELSE Ret(S, 1)

on_cloud_receive(S, msg, env) ==
  IF msg.type = "UPDATE_MSG" THEN
    Ret(IF ~msg.error
        THEN sm_input_event(S, "EVT_DATA_UPDT", msg.list, 0, env) ELSE S, 1)
  ELSE IF msg.type = "REQUEST_MSG" THEN
    Ret(IF ~msg.error
        THEN sm_input_event(S, "EVT_PUB_DATA", msg.list, 0, env) ELSE S, 1)
  ELSE IF msg.type = "REGISTER_MSG" THEN
    Ret(IF msg.error
        THEN sm_input_event(S, "EVT_REG_NOT_OK", <<>>, 0, env)
        ELSE sm_input_event(S, "EVT_REG_OK", <<>>, msg.token, env), 1)
  ELSE IF msg.type = "UNREGISTER_MSG" THEN
    Ret(IF ~msg.error
        THEN sm_input_event(S, "EVT_UNREG_REQ", <<>>, 0, env) ELSE S, 1)
  ELSE IF msg.type = "AUTH_MSG" THEN
    Ret(IF msg.error
        THEN sm_input_event(S, "EVT_AUTH_NOT_OK", <<>>, 0, env)
        ELSE sm_input_event(S, "EVT_AUTH_OK", <<>>, 0, env), 1)
  ELSE IF msg.type = "SCHEMA_MSG" THEN
    Ret(IF msg.error
        THEN sm_input_event(S, "EVT_SCH_NOT_OK", <<>>, 0, env)
        ELSE sm_input_event(S, "EVT_SCH_OK", <<>>, 0, env), 1)
  ELSE Ret(S, 1)

\* iface_modbus_read_data (iface-modbus.c is not in src/): a successful read
\* stores the value read in *out and returns 0; a failed one returns < 0
iface_modbus_read_data(S, item, read_ok, read_val) ==
  IF read_ok
  THEN Ret(StoreItem(Log(S, Call("iface_modbus_read_data", "",
                                 <<item.reg_addr, item.bit_offset>>,
                                 read_val, 0)),
                     item.sensor_id, [item EXCEPT !.current_val = read_val]),
           0)
  ELSE Ret(Log(S, Call("iface_modbus_read_data", "",
                       <<item.reg_addr, item.bit_offset>>, 0, -1)), -1)

\* lines 260-276 of on_modbus_poll_receive: the tick of a sensor the registry
\* holds (`data_item`): read, evaluate, and on "publish" advance sent_val and
\* emit PUB_DATA; the result of the read is returned
poll_receive_item(S, sensor_id, data_item, read_ok, read_val, env) ==
    LET S1 == iface_modbus_read_data(S, data_item, read_ok, read_val)
        rc == S1.ret
        item == l_hashmap_lookup(S1.data_items, sensor_id)[1]
        chk == config_check_value(item.config, item.current_val,
                                  item.sent_val, item.schema)
        S1c == Log(S1, Call("config_check_value", "", <<sensor_id>>,
                            item.current_val, chk))
    IN IF chk > 0
       THEN LET S2 == StoreItem(S1c, sensor_id,
                                [item EXCEPT !.sent_val = item.current_val])
            IN Ret(sm_input_event(S2, "EVT_PUB_DATA", <<sensor_id>>, 0, env),
                   rc)
       ELSE Ret(S1c, rc)

\* a tick that reports success for an id the registry does not hold
on_modbus_poll_receive_absent_ok(S, sensor_id, read_ok, read_val, env) ==
  LET hit == l_hashmap_lookup(S.data_items, sensor_id) IN
  IF hit = <<>> THEN Ret(S, 0)
  ELSE poll_receive_item(S, sensor_id, hit[1], read_ok, read_val, env)

\* a tick that drops the result of the read and returns 0
on_modbus_poll_receive_rc0(S, sensor_id, read_ok, read_val, env) ==
  LET hit == l_hashmap_lookup(S.data_items, sensor_id) IN
  IF hit = <<>> THEN Ret(S, -EINVAL)
  ELSE Ret(poll_receive_item(S, sensor_id, hit[1], read_ok, read_val, env), 0)

on_modbus_poll_receive(S, sensor_id, read_ok, read_val, env) ==
  LET hit == l_hashmap_lookup(S.data_items, sensor_id) IN
  IF hit = <<>> THEN Ret(S, -EINVAL)
  ELSE poll_receive_item(S, sensor_id, hit[1], read_ok, read_val, env)

(***************************************************************************)
(* Start and shutdown.                                                     *)
(***************************************************************************)
knot_thing_destroy(S) ==
  LET S1 == IF S.msg_to # 0
            THEN l_timeout_remove(
                   Log(S, Call("l_timeout_remove", "", <<>>, S.msg_to, 0)),
                   S.msg_to)
            ELSE S
  IN [Log(S1, Call("l_hashmap_destroy", "", <<>>, 0, 0))
        EXCEPT !.has_items = FALSE, !.data_items = l_hashmap_new]

\* properties_create_device (properties.c is not in src/): loads the stored
\* credentials and declares the sensors of the configuration files; when it
\* fails it has declared the first `upto` of them
RECURSIVE DeclareAll(_, _)
DeclareAll(S, items) ==
  IF items = <<>> THEN S
  ELSE DeclareAll(device_set_new_data_item(S, Head(items).sensor_id,
                                           Head(items).f),
                  Tail(items))

properties_create_device(S, conf, ok, upto) ==
  IF ok
  THEN Ret(DeclareAll(device_set_thing_credentials(S, conf.id, conf.token),
                      conf.items), 0)
  ELSE Ret(DeclareAll(S, SubSeq(conf.items, 1, upto)), -1)

RECURSIVE PollEach(_, _, _)
PollEach(S, entries, poll_fail) ==
  IF entries = <<>> THEN S
  ELSE LET sid == Head(entries).value.sensor_id
           S1 == poll_create(S, DEFAULT_POLLING_INTERVAL, sid,
                             sid \notin poll_fail)
       IN PollEach(IF sid \in poll_fail THEN Ret(S1, -1) ELSE S1,
                   Tail(entries), poll_fail)

create_data_item_polling(S, poll_fail) ==
  LET S1 == PollEach(Ret(S, 0), l_hashmap_foreach(S.data_items), poll_fail)
  IN IF S1.ret # 0 THEN Ret(poll_destroy(S1), S1.ret) ELSE S1

iface_modbus_start(S, ok) ==
  IF ok THEN Ret([Log(S, Call("iface_modbus_start", "", <<>>, 0, 0))
                    EXCEPT !.modbus_started = TRUE], 0)
  ELSE Ret(Log(S, Call("iface_modbus_start", "", <<>>, 0, -1)), -1)

iface_modbus_stop(S) ==
  [Log(S, Call("iface_modbus_stop", "", <<>>, 0, 0))
     EXCEPT !.modbus_started = FALSE]

knot_cloud_start(S, ok) ==
  IF ok THEN Ret([Log(S, Call("knot_cloud_start", "", <<>>, 0, 0))
                    EXCEPT !.cloud_started = TRUE], 0)
  ELSE Ret(Log(S, Call("knot_cloud_start", "", <<>>, 0, -1)), -1)

knot_cloud_stop(S) ==
  [Log(S, Call("knot_cloud_stop", "", <<>>, 0, 0))
     EXCEPT !.cloud_started = FALSE]

\* `fail` names the step that fails: "none", "properties", "poll", "modbus"
\* or "cloud"
device_start(S, conf, fail, upto, poll_fail) ==
  LET S0 == [S EXCEPT !.has_items = TRUE, !.data_items = l_hashmap_new]
      S1 == properties_create_device(S0, conf, fail # "properties", upto)
      S2 == sm_start(Log(S1, Call("sm_start", "", <<>>, 0, 0)))
      S3 == create_data_item_polling(
              S2, IF fail = "poll" THEN poll_fail ELSE {})
      S4 == iface_modbus_start(S3, fail # "modbus")
      S5 == knot_cloud_start(S4, fail # "cloud")
  IN IF S1.ret # 0 THEN Ret(S1, -EINVAL)
     ELSE IF S3.ret < 0 THEN Ret(knot_thing_destroy(S3), S3.ret)
     ELSE IF S4.ret < 0 THEN Ret(knot_thing_destroy(poll_destroy(S4)), S4.ret)
     ELSE IF S5.ret < 0
       THEN Ret(knot_thing_destroy(iface_modbus_stop(poll_destroy(S5))),
                S5.ret)
     ELSE Ret(S5, 0)

\* a shutdown that forgets the handshake timer
knot_thing_destroy_keep_timer(S) ==
  [Log(S, Call("l_hashmap_destroy", "", <<>>, 0, 0))
     EXCEPT !.has_items = FALSE, !.data_items = l_hashmap_new]

device_destroy_keep_timer(S) ==
  knot_thing_destroy_keep_timer(
    iface_modbus_stop(knot_cloud_stop(poll_destroy(config_stop(S)))))

device_destroy(S) ==
  knot_thing_destroy(
    iface_modbus_stop(knot_cloud_stop(poll_destroy(config_stop(S)))))

(***************************************************************************)
(* The inputs the model draws.                                             *)
(***************************************************************************)
\* a token of `n` characters, all `c`
TokenOf(n, c) == [i \in 1..n |-> c]

\* the token the cloud issues on registration
Tokens == {TokenOf(KNOT_PROTOCOL_TOKEN_LEN, 2)}

\* 64-bit random values, as 16 hex digits: one with its top digit set, one
\* whose five top digits are zero
RndFull == <<15, 0, 1, 2, 3, 4, 5, 6, 7, 8, 9, 10, 11, 12, 13, 14>>
RndShort == <<0, 0, 0, 0, 0, 1, 2, 3, 4, 5, 6, 7, 8, 9, 10, 11>>

ConfUpperTime == [flags |-> {"upper", "time"}, lower |-> 0, upper |-> 2]

\* the sensors the configuration files of a run declare
RunItems ==
  << [sensor_id |-> 1,
      f |-> [schema |-> 1, config |-> ConfChange, reg_addr |-> 10,
             bit_offset |-> 0]],
     [sensor_id |-> 2,
      f |-> [schema |-> 2, config |-> ConfUpperTime, reg_addr |-> 11,
             bit_offset |-> 1]] >>

\* sensor id lists of inbound UPDATE and REQUEST messages; 128 is not declared
ReqLists == {<<1>>, <<128, 2, 1>>}

DefaultEnv ==
  [rnd |-> RndFull, store_ok |-> TRUE, cfg_ok |-> TRUE, pub_fail |-> {}]

\* the random value a run draws when it generates its id
RunRnds == {RndShort}

EnvsRnd == {[DefaultEnv EXCEPT !.rnd = r] : r \in RunRnds}

EnvsPub(ids) == {[DefaultEnv EXCEPT !.pub_fail = f] : f \in SUBSET ids}

Msgs ==
  {[type |-> "REQUEST_MSG", error |-> e, token |-> <<>>, list |-> l] :
     e \in BOOLEAN, l \in ReqLists}
  \cup
  {[type |-> "UPDATE_MSG", error |-> e, token |-> <<>>, list |-> <<1>>] :
     e \in BOOLEAN}
  \cup
  {[type |-> "REGISTER_MSG", error |-> FALSE, token |-> k, list |-> <<>>] :
     k \in Tokens}
  \cup
  {[type |-> "REGISTER_MSG", error |-> TRUE, token |-> <<>>, list |-> <<>>]}
  \cup
  {[type |-> t, error |-> e, token |-> <<>>, list |-> <<>>] :
     t \in MsgTypes \ {"UPDATE_MSG", "REQUEST_MSG", "REGISTER_MSG"},
     e \in BOOLEAN}

\* what the collaborators may answer while `msg` is handled
EnvsMsg(msg) ==
  IF msg.type = "REGISTER_MSG"
    THEN {[DefaultEnv EXCEPT !.store_ok = b] : b \in BOOLEAN}
  ELSE IF msg.type = "SCHEMA_MSG"
    THEN {[DefaultEnv EXCEPT !.cfg_ok = b, !.pub_fail = f] :
            b \in BOOLEAN, f \in {{}, {1}}}
  ELSE IF msg.type = "REQUEST_MSG"
    THEN EnvsPub({msg.list[i] : i \in 1..Len(msg.list)})
  ELSE {DefaultEnv}

(***************************************************************************)
(* Initial state: the process before device_start.                         *)
(***************************************************************************)
InitThing ==
  /\ id = <<>>
  /\ token = <<>>
  /\ data_items = l_hashmap_new
  /\ msg_to = 0
  /\ timeouts = [h \in {} |-> [secs |-> 0, armed |-> FALSE]]
  /\ conn_mask = 0
  /\ sm_state = "DISCONNECTED"
  /\ polls = <<>>
  /\ poll_running = FALSE
  /\ config_running = FALSE
  /\ modbus_started = FALSE
  /\ cloud_started = FALSE
  /\ creds_file = <<>>
  /\ calls = <<>>
  /\ last_op = Op("init", "", <<>>, 0, FALSE, 0)
  /\ decl_log = <<>>
  /\ tick_log = <<>>

Init ==
  /\ InitThing
  /\ has_items = FALSE
  /\ sm_started = FALSE
  /\ phase = "init"

\* the configuration a run starts from: the sensors, and the stored credentials
RunConf ==
  [items |-> RunItems,
   id |-> IF creds_file = <<>> THEN <<>> ELSE creds_file[1].id,
   token |-> IF creds_file = <<>> THEN <<>> ELSE creds_file[1].token]

(***************************************************************************)
(* The actions of a run.                                                   *)
(***************************************************************************)
DeviceStart ==
  /\ phase = "init"
  /\ \E fail \in {"none", "properties", "poll", "modbus", "cloud"},
        upto \in 0..Len(RunItems), poll_fail \in {{1}, {2}, {1, 2}} :
       /\ fail # "properties" => upto = 0
       /\ fail # "poll" => poll_fail = {1}
       /\ LET S == device_start(Cur, RunConf, fail, upto, poll_fail) IN
          /\ Commit([S EXCEPT !.phase = IF S.ret = 0 THEN "running"
                                        ELSE "failed"])
          /\ last_op' = Op("device_start", fail, <<>>, upto, FALSE, S.ret)

OnCloudConnected ==
  /\ cloud_started
  /\ \E env \in EnvsRnd :
       /\ Commit(on_cloud_connected(Cur, env))
       /\ last_op' = Op("on_cloud_connected", "CLOUD", <<>>, CLOUD, TRUE, 0)

OnCloudDisconnected ==
  /\ cloud_started
  /\ Commit(on_cloud_disconnected(Cur, DefaultEnv))
  /\ last_op' = Op("on_cloud_disconnected", "CLOUD", <<>>, CLOUD, FALSE, 0)

OnModbusConnected ==
  /\ modbus_started
  /\ \E env \in EnvsRnd :
       /\ Commit(on_modbus_connected(Cur, env))
       /\ last_op' = Op("on_modbus_connected", "MODBUS", <<>>, MODBUS, TRUE, 0)

OnModbusDisconnected ==
  /\ modbus_started
  /\ Commit(on_modbus_disconnected(Cur, DefaultEnv))
  /\ last_op' = Op("on_modbus_disconnected", "MODBUS", <<>>, MODBUS, FALSE, 0)

OnCloudReceive ==
  /\ cloud_started
  /\ \E msg \in Msgs : \E env \in EnvsMsg(msg) :
       LET S == on_cloud_receive(Cur, msg, env) IN
       /\ Commit(S)
       /\ last_op' = Op("on_cloud_receive", msg.type, msg.list, msg.token,
                        msg.error, S.ret)

\* a tick of the schedule poll_create made for `sid`
OnModbusPollReceive ==
  /\ poll_running
  /\ \E i \in 1..Len(polls), read_ok \in BOOLEAN, read_val \in Values :
       /\ ~read_ok => read_val = 0
       /\ \E env \in EnvsPub({polls[i]}) :
            LET S == on_modbus_poll_receive(Cur, polls[i], read_ok, read_val,
                                            env) IN
            /\ Commit(S)
            /\ last_op' = Op("on_modbus_poll_receive", "", <<polls[i]>>,
                             read_val, read_ok, S.ret)

\* an armed l_timeout expires: it is disarmed and its callback runs
OnMsgTimeout ==
  \E h \in DOMAIN timeouts :
    /\ timeouts[h].armed
    /\ Commit(on_msg_timeout(
                [Cur EXCEPT !.timeouts[h].armed = FALSE], DefaultEnv))
    /\ last_op' = Op("on_msg_timeout", "", <<>>, h, FALSE, 0)

\* the config service's timer of a sensor with a time rule
OnConfigTimeout ==
  /\ config_running
  /\ \E e \in {RunItems[i] : i \in 1..Len(RunItems)} :
       /\ "time" \in e.f.config.flags
       /\ \E env \in EnvsPub({e.sensor_id}) :
            /\ Commit(on_config_timeout(Cur, e.sensor_id, env))
            /\ last_op' = Op("on_config_timeout", "", <<e.sensor_id>>, 0,
                             FALSE, 0)

DeviceDestroy ==
  /\ phase = "running"
  /\ Commit([device_destroy(Cur) EXCEPT !.phase = "destroyed"])
  /\ last_op' = Op("device_destroy", "", <<>>, 0, FALSE, 0)

Next ==
  \/ DeviceStart
  \/ OnCloudConnected
  \/ OnCloudDisconnected
  \/ OnModbusConnected
  \/ OnModbusDisconnected
  \/ OnCloudReceive
  \/ OnModbusPollReceive
  \/ OnMsgTimeout
  \/ OnConfigTimeout
  \/ DeviceDestroy

Spec == Init /\ [][Next]_vars

(***************************************************************************)
(* The timer slot driven directly through its three operations.            *)
(***************************************************************************)
InitTimer ==
  /\ InitThing
  /\ has_items = TRUE
  /\ sm_started = TRUE
  /\ phase = "running"

TimeoutCreate ==
  \E seconds \in Secs :
    /\ Commit(device_msg_timeout_create(Cur, seconds))
    /\ last_op' = Op("device_msg_timeout_create", "", <<>>, seconds,
                     msg_to # 0, 0)

TimeoutModify ==
  \E seconds \in Secs :
    /\ Commit(device_msg_timeout_modify(Cur, seconds))
    /\ last_op' = Op("device_msg_timeout_modify", "", <<>>, seconds,
                     msg_to # 0, 0)

TimeoutRemove ==
  /\ Commit(device_msg_timeout_remove(Cur))
  /\ last_op' = Op("device_msg_timeout_remove", "", <<>>, 0, msg_to # 0, 0)

NextTimer ==
  \/ TimeoutCreate
  \/ TimeoutModify
  \/ TimeoutRemove
  \/ OnMsgTimeout

SpecTimer == InitTimer /\ [][NextTimer]_vars

(***************************************************************************)
(* The device id driven directly: generate and clear.                      *)
(***************************************************************************)
\* 64-bit values with `k` leading zero digits, then digit `d`, then all `r`
RndDigits(k, d, r) ==
  [i \in 1..KNOT_PROTOCOL_UUID_LEN |->
     IF i <= k THEN 0 ELSE IF i = k + 1 THEN d ELSE r]

IdRnds ==
  {RndDigits(k, d, r) :
     k \in 0..KNOT_PROTOCOL_UUID_LEN, d \in {1, 7, 10, 15}, r \in {0, 15}}

InitId ==
  /\ InitThing
  /\ has_items = FALSE
  /\ sm_started = FALSE
  /\ phase = "init"

GenerateThingId ==
  \E rnd \in IdRnds :
    /\ Commit(device_generate_thing_id(Cur, rnd))
    /\ last_op' = Op("device_generate_thing_id", "", rnd, 0, FALSE, 0)

ClearThingId ==
  /\ Commit(device_clear_thing_id(Cur))
  /\ last_op' = Op("device_clear_thing_id", "", <<>>, 0, FALSE, 0)

NextId ==
  \/ GenerateThingId
  \/ ClearThingId

SpecId == InitId /\ [][NextId]_vars

(***************************************************************************)
(* The sensor registry driven directly: declarations, then the three       *)
(* iterations over it.                                                     *)
(***************************************************************************)
InitRegistry ==
  /\ InitThing
  /\ has_items = TRUE
  /\ sm_started = FALSE
  /\ phase = "init"

SetNewDataItem ==
  /\ Len(decl_log) < MaxInserts
  /\ \E sid \in SensorIds, f \in Fields :
       /\ Commit(device_set_new_data_item(Cur, sid, f))
       /\ last_op' = Op("device_set_new_data_item", "", <<sid>>, 0, FALSE, 0)

SendSchema ==
  /\ Commit(device_send_schema(Cur))
  /\ last_op' = Op("device_send_schema", "", <<>>, 0, FALSE, 0)

PublishDataAll ==
  /\ Commit(device_publish_data_all(Cur, {}))
  /\ last_op' = Op("device_publish_data_all", "", <<>>, 0, FALSE, 0)

CreateDataItemPolling ==
  /\ polls = <<>>
  /\ LET S == create_data_item_polling(Cur, {}) IN
     /\ Commit(S)
     /\ last_op' = Op("create_data_item_polling", "", <<>>, 0, FALSE, S.ret)

NextRegistry ==
  \/ SetNewDataItem
  \/ SendSchema
  \/ PublishDataAll
  \/ CreateDataItemPolling

SpecRegistry == InitRegistry /\ [][NextRegistry]_vars

(***************************************************************************)
(* The credentials driven directly: store, clear the token, clear the      *)
(* credential file.                                                        *)
(***************************************************************************)
\* the tokens handed to device_store_credentials_on_file: one character, one
\* short of the protocol's width, the protocol's width
CredTokens ==
  {TokenOf(n, c) : n \in {1, KNOT_PROTOCOL_TOKEN_LEN - 1,
                          KNOT_PROTOCOL_TOKEN_LEN},
                   c \in {1, 2}}

\* the device has generated its id and holds no token yet
InitCreds ==
  /\ id \in {FormatHex(RndFull), FormatHex(RndShort)}
  /\ token = <<>>
  /\ has_items = TRUE
  /\ data_items = l_hashmap_new
  /\ msg_to = 0
  /\ timeouts = [h \in {} |-> [secs |-> 0, armed |-> FALSE]]
  /\ conn_mask = CONNECTED_MASK
  /\ sm_state = "REGISTERING"
  /\ sm_started = TRUE
  /\ polls = <<>>
  /\ poll_running = TRUE
  /\ config_running = FALSE
  /\ modbus_started = TRUE
  /\ cloud_started = TRUE
  /\ creds_file = <<>>
  /\ phase = "running"
  /\ calls = <<>>
  /\ last_op = Op("init", "", <<>>, 0, FALSE, 0)
  /\ decl_log = <<>>
  /\ tick_log = <<>>

StoreCredentialsOnFile ==
  \E tok \in CredTokens, store_ok \in BOOLEAN :
    LET S == device_store_credentials_on_file(Cur, tok, store_ok) IN
    /\ Commit(S)
    /\ last_op' = Op("device_store_credentials_on_file", "", tok, 0,
                     store_ok, S.ret)

ClearThingToken ==
  /\ Commit(device_clear_thing_token(Cur))
  /\ last_op' = Op("device_clear_thing_token", "", <<>>, 0, FALSE, 0)

ClearCredentialsOnFile ==
  /\ Commit(device_clear_credentials_on_file(Cur))
  /\ last_op' = Op("device_clear_credentials_on_file", "", <<>>, 0, FALSE, 0)

NextCreds ==
  \/ StoreCredentialsOnFile
  \/ ClearThingToken
  \/ ClearCredentialsOnFile

SpecCreds == InitCreds /\ [][NextCreds]_vars

(***************************************************************************)
(* The poll callback driven directly, in a session that is ONLINE (both    *)
(* links up, handshake done) with the sensors of the configuration freshly *)
(* declared: ticks for the declared sensors and for an id the registry     *)
(* does not hold.                                                          *)
(***************************************************************************)
\* the values a tick reads
PollVals == {10, 11}

\* the ids ticks are delivered for; 128 is not declared
PollIds == {1, 2, 128}

InitPoll ==
  /\ id = FormatHex(RndShort)
  /\ token = TokenOf(KNOT_PROTOCOL_TOKEN_LEN, 2)
  /\ has_items = TRUE
  /\ data_items = DeclareAll([data_items |-> l_hashmap_new,
                              decl_log |-> <<>>], RunItems).data_items
  /\ msg_to = 0
  /\ timeouts = [h \in {} |-> [secs |-> 0, armed |-> FALSE]]
  /\ conn_mask = CONNECTED_MASK
  /\ sm_state = "ONLINE"
  /\ sm_started = TRUE
  /\ polls = <<1, 2>>
  /\ poll_running = TRUE
  /\ config_running = TRUE
  /\ modbus_started = TRUE
  /\ cloud_started = TRUE
  /\ creds_file = <<[id |-> FormatHex(RndShort),
                     token |-> TokenOf(KNOT_PROTOCOL_TOKEN_LEN, 2)]>>
  /\ phase = "running"
  /\ calls = <<>>
  /\ last_op = Op("init", "", <<>>, 0, FALSE, 0)
  /\ decl_log = RunItems
  /\ tick_log = <<>>

\* the number of publications the calls `cs` made
Published(cs) ==
  Len(SelectSeq(cs, LAMBDA c : c.fn = "knot_cloud_publish_data"))

PollTick ==
  /\ Len(tick_log) < MaxTicks
  /\ \E sid \in PollIds, read_ok \in BOOLEAN, read_val \in PollVals :
       /\ (~read_ok \/ device_data_item_lookup(Cur, sid) = <<>>)
            => read_val = 10
       /\ device_data_item_lookup(Cur, sid) = <<>> => read_ok
       /\ LET S == on_modbus_poll_receive(Cur, sid, read_ok, read_val,
                                         DefaultEnv) IN
          /\ Commit([S EXCEPT !.tick_log =
                       Append(@, [sid |-> sid, ok |-> read_ok,
                                  val |-> read_val,
                                  pubs |-> Published(S.calls)])])
          /\ last_op' = Op("on_modbus_poll_receive", "", <<sid>>, read_val,
                           read_ok, S.ret)

NextPoll == PollTick

SpecPoll == InitPoll /\ [][NextPoll]_vars

(***************************************************************************)
(* Properties.                                                             *)
(***************************************************************************)
IsSmEvent(c) == c.fn = "sm_input_event"

\* the events the last handler handed to the state machine, in order
SmEvents ==
  LET ev == SelectSeq(calls, IsSmEvent) IN
  [i \in 1..Len(ev) |->
     [evt |-> ev[i].evt, list |-> ev[i].list, val |-> ev[i].val]]

Event(evt, list, val) == [evt |-> evt, list |-> list, val |-> val]

\* every bit of `bits` is set in `mask` / no bit of `bits` is set in `mask`
BitsSet(mask, bits) == BitAndNot(bits, mask, 8) = 0
BitsClear(mask, bits) == BitAndNot(mask, bits, 8) = mask

ConnOps == {"on_cloud_connected", "on_cloud_disconnected",
            "on_modbus_connected", "on_modbus_disconnected"}

\* C1: after every up/down notification the tracker has set (up) or cleared
\* (down) the bits of the notified link, and it hands the state machine
\* exactly one event: READY if and only if both the MODBUS and the CLOUD bits
\* are set after the update, NOT_READY otherwise.
C1_ReadyIffBothBits ==
  last_op.op \in ConnOps =>
    /\ IF last_op.flag THEN BitsSet(conn_mask, last_op.val)
       ELSE BitsClear(conn_mask, last_op.val)
    /\ SmEvents =
         << Event(IF BitsSet(conn_mask, MODBUS) /\ BitsSet(conn_mask, CLOUD)
                  THEN "EVT_READY" ELSE "EVT_NOT_READY", <<>>, 0) >>

\* the cloud link comes up while the Modbus link is up: READY
C1_Witness ==
  /\ last_op.op = "on_cloud_connected"
  /\ conn_mask = CONNECTED_MASK
  /\ SmEvents = <<Event("EVT_READY", <<>>, 0)>>

\* the event the table of spec.md 4.7 gives for a message, <<>> for none
TableEvents(kind, error, tok, list) ==
  IF kind = "REGISTER_MSG"
    THEN IF error THEN <<Event("EVT_REG_NOT_OK", <<>>, 0)>>
         ELSE <<Event("EVT_REG_OK", <<>>, tok)>>
  ELSE IF kind = "AUTH_MSG"
    THEN IF error THEN <<Event("EVT_AUTH_NOT_OK", <<>>, 0)>>
         ELSE <<Event("EVT_AUTH_OK", <<>>, 0)>>
  ELSE IF kind = "SCHEMA_MSG"
    THEN IF error THEN <<Event("EVT_SCH_NOT_OK", <<>>, 0)>>
         ELSE <<Event("EVT_SCH_OK", <<>>, 0)>>
  ELSE IF kind = "UPDATE_MSG" /\ ~error
    THEN <<Event("EVT_DATA_UPDT", list, 0)>>
  ELSE IF kind = "REQUEST_MSG" /\ ~error
    THEN <<Event("EVT_PUB_DATA", list, 0)>>
  ELSE IF kind = "UNREGISTER_MSG" /\ ~error
    THEN <<Event("EVT_UNREG_REQ", <<>>, 0)>>
  ELSE <<>>

\* C2: the events on_cloud_receive hands to the state machine for a message
\* are exactly those of the table: one event for REGISTER, AUTH and SCHEMA
\* (by error flag) and for a non-errored UPDATE, REQUEST and UNREGISTER, and
\* none for LIST, unknown kinds and errored UPDATE, REQUEST and UNREGISTER.
C2_RouterTable ==
  last_op.op = "on_cloud_receive" =>
    SmEvents = TableEvents(last_op.kind, last_op.flag, last_op.val,
                           last_op.list)

\* an errored REQUEST is dropped
C2_Witness ==
  /\ last_op.op = "on_cloud_receive"
  /\ last_op.kind = "REQUEST_MSG"
  /\ last_op.flag
  /\ calls = <<>>

SentVal(items, sid) == l_hashmap_lookup(items, sid)[1].sent_val

CurrentVal(items, sid) == l_hashmap_lookup(items, sid)[1].current_val

\* C3: a poll tick whose evaluation says "publish" (a PUB_DATA event is
\* emitted) but which publishes nothing to the cloud leaves the sensor's sent
\* value as it was.
C3_SentAdvancesAtPublication ==
  [][ ( /\ last_op'.op = "on_modbus_poll_receive"
        /\ \E i \in 1..Len(calls') : /\ calls'[i].fn = "sm_input_event"
                                     /\ calls'[i].evt = "EVT_PUB_DATA"
        /\ \A i \in 1..Len(calls') :
             ~(calls'[i].fn = "knot_cloud_publish_data" /\ calls'[i].rc = 0) )
      => SentVal(data_items', last_op'.list[1])
           = SentVal(data_items, last_op'.list[1]) ]_vars

\* C4: every publication that reached the cloud carried the sensor's current
\* value, and after it the sensor's sent value equals the published value.
C4_PublishedIsCurrentAndSent ==
  \A i \in 1..Len(calls) :
    (calls[i].fn = "knot_cloud_publish_data" /\ calls[i].rc = 0) =>
      /\ CurrentVal(data_items, calls[i].list[1]) = calls[i].val
      /\ SentVal(data_items, calls[i].list[1]) = calls[i].val

\* C5: at most one l_timeout is alive and it is the one in the slot;
\* device_msg_timeout_create on an occupied slot changes neither the slot nor
\* the timer (its duration, whether it is armed); device_msg_timeout_remove
\* leaves the slot empty and no timer alive.
C5_SingleTimerSlot ==
  [][ /\ Cardinality(DOMAIN timeouts') <= 1
      /\ DOMAIN timeouts' = IF msg_to' = 0 THEN {} ELSE {msg_to'}
      /\ (last_op'.op = "device_msg_timeout_create" /\ msg_to # 0)
           => (msg_to' = msg_to /\ timeouts' = timeouts)
      /\ last_op'.op = "device_msg_timeout_remove"
           => (msg_to' = 0 /\ DOMAIN timeouts' = {}) ]_vars

\* a create on a slot that holds an expired timer
C5_Witness ==
  /\ last_op.op = "device_msg_timeout_create"
  /\ last_op.flag
  /\ msg_to # 0
  /\ ~timeouts[msg_to].armed
  /\ timeouts[msg_to].secs # last_op.val

TeardownCalls == {"config_stop", "poll_destroy", "knot_cloud_stop",
                  "iface_modbus_stop", "l_hashmap_destroy"}

IsTeardown(c) == c.fn \in TeardownCalls

CallNames(cs) == [i \in 1..Len(cs) |-> cs[i].fn]

\* C6: device_destroy stops the config service, destroys the polls, stops the
\* cloud, stops Modbus and destroys the registry, in this order, and leaves no
\* l_timeout alive; once the device is destroyed no handler runs any more, so
\* no TIMEOUT is delivered.
C6_ShutdownOrder ==
  /\ last_op.op = "device_destroy" =>
       /\ CallNames(SelectSeq(calls, IsTeardown))
            = <<"config_stop", "poll_destroy", "knot_cloud_stop",
                "iface_modbus_stop", "l_hashmap_destroy">>
       /\ DOMAIN timeouts = {}
  /\ phase = "destroyed" => last_op.op = "device_destroy"

\* a shutdown that found a handshake timer in the slot
C6_Witness ==
  /\ last_op.op = "device_destroy"
  /\ \E i \in 1..Len(calls) : calls[i].fn = "l_timeout_remove"

\* the start order of what device_start starts, and the call that releases it
StartRank(fn) ==
  IF fn = "l_hashmap_destroy" THEN 1
  ELSE IF fn = "sm_stop" THEN 2
  ELSE IF fn = "poll_destroy" THEN 3
  ELSE 4

IsRelease(c) ==
  c.fn \in {"l_hashmap_destroy", "sm_stop", "poll_destroy",
            "iface_modbus_stop"}

\* C7: a device_start that fails at some step returns nonzero and leaves
\* nothing it had started: no registry, no running state machine, no poll
\* schedule, no Modbus link; and it releases them in the reverse of the order
\* in which they were started.
C7_StartFailureUnwinds ==
  (last_op.op = "device_start" /\ last_op.kind # "none") =>
    /\ last_op.ret # 0
    /\ ~has_items
    /\ ~sm_started
    /\ polls = <<>>
    /\ ~modbus_started
    /\ LET rel == SelectSeq(calls, IsRelease) IN
       \A i \in 1..Len(rel), j \in 1..Len(rel) :
         i < j => StartRank(rel[i].fn) > StartRank(rel[j].fn)

\* C8: the device id is empty or exactly 16 hex digits wide.
C8_IdWidth ==
  id = <<>> \/ Len(id) = KNOT_PROTOCOL_UUID_LEN

DeclsOf(sid) == SelectSeq(decl_log, LAMBDA d : d.sensor_id = sid)

EntriesOf(sid) ==
  SelectSeq(l_hashmap_foreach(data_items), LAMBDA e : e.key = sid)

Occurrences(list, x) == Cardinality({i \in 1..Len(list) : list[i] = x})

ItemFields(item) ==
  [schema |-> item.schema, config |-> item.config,
   reg_addr |-> item.reg_addr, bit_offset |-> item.bit_offset]

\* C9: once a sensor id was declared, however often, the registry holds one
\* entry for it, a lookup returns the fields of its latest declaration, and
\* the schema upload, the snapshot publish and the poll creation visit it
\* once.
C9_InsertReplaces ==
  \A sid \in SensorIds :
    Len(DeclsOf(sid)) >= 1 =>
      /\ Len(EntriesOf(sid)) = 1
      /\ LET hit == device_data_item_lookup(Cur, sid) IN
         /\ hit # <<>>
         /\ ItemFields(hit[1]) = DeclsOf(sid)[Len(DeclsOf(sid))].f
      /\ last_op.op = "device_send_schema"
           => Occurrences(calls[1].list, sid) = 1
      /\ last_op.op = "device_publish_data_all"
           => Occurrences([i \in 1..Len(calls) |-> calls[i].list[1]], sid) = 1
      /\ last_op.op = "create_data_item_polling"
           => Occurrences(polls, sid) = 1

\* C10: a lookup of an id declared once returns an entry with the schema,
\* config, register address and bit offset of that declaration, whatever
\* other ids were declared before or after it; a lookup of an id never
\* declared returns nothing.
C10_DeclareLookupRoundTrip ==
  \A sid \in SensorIds :
    LET hit == device_data_item_lookup(Cur, sid) IN
    /\ Len(DeclsOf(sid)) = 0 => hit = <<>>
    /\ Len(DeclsOf(sid)) = 1 =>
         /\ hit # <<>>
         /\ hit[1].sensor_id = sid
         /\ ItemFields(hit[1]) = DeclsOf(sid)[1].f

\* 128 was declared after 1, which shares its bucket, with other fields;
\* 2 was never declared
C10_Witness ==
  /\ Len(decl_log) = 2
  /\ decl_log[1].sensor_id = 1
  /\ decl_log[2].sensor_id = 128
  /\ decl_log[1].f # decl_log[2].f
  /\ device_data_item_lookup(Cur, 128) # <<>>
  /\ device_data_item_lookup(Cur, 2) = <<>>

\* C11: a notification that repeats the one delivered just before it (the same
\* link, the same direction) leaves the connectivity bitmask as the first one
\* left it and hands the state machine the same READY or NOT_READY event.
C11_TrackerIdempotent ==
  [][ (last_op.op \in ConnOps /\ last_op'.op = last_op.op)
      => /\ conn_mask' = conn_mask
         /\ [i \in 1..Len(SelectSeq(calls', IsSmEvent)) |->
              SelectSeq(calls', IsSmEvent)[i].evt]
            = [i \in 1..Len(SmEvents) |-> SmEvents[i].evt]
         /\ Len(SmEvents) = 1 ]_vars

\* the cloud link is reported up a second time while both links are up: the
\* state machine, already past DISCONNECTED, is handed READY again and sends
\* nothing
C11_Witness ==
  /\ last_op.op = "on_cloud_connected"
  /\ conn_mask = CONNECTED_MASK
  /\ sm_state = "REGISTERING"
  /\ CallNames(calls) = <<"sm_input_event">>
  /\ calls[1].evt = "EVT_READY"

\* the ticks of sensor `sid` in the session so far
TicksOf(sid) == SelectSeq(tick_log, LAMBDA t : t.sid = sid)

\* C12: ONLINE, sensor 1 has the single rule `change` and is freshly
\* declared; when its ticks read 10, 10, 10, 11, 11 there is exactly one
\* publication, made by the fourth tick (the 10 -> 11 edge).
C12_OnePublicationOnEdge ==
  LET t == TicksOf(1) IN
  ( /\ [i \in 1..Len(t) |-> t[i].val] = <<10, 10, 10, 11, 11>>
    /\ \A i \in 1..Len(t) : t[i].ok )
  => [i \in 1..Len(t) |-> t[i].pubs] = <<0, 0, 0, 1, 0>>

\* C13: a tick for an id the registry does not hold makes no call at all (no
\* Modbus read, no evaluation, no PUB_DATA event), leaves every data item as
\* it was, and returns an error.
C13_AbsentTickDropped ==
  [][ ( /\ last_op'.op = "on_modbus_poll_receive"
        /\ device_data_item_lookup(Cur, last_op'.list[1]) = <<>> )
      => /\ calls' = <<>>
         /\ data_items' = data_items
         /\ last_op'.ret < 0 ]_vars

\* a tick for 128, which shares its bucket with the declared 1, after sensor
\* 1 was read
C13_Witness ==
  /\ last_op.op = "on_modbus_poll_receive"
  /\ last_op.list = <<128>>
  /\ last_op.ret = -EINVAL
  /\ CurrentVal(data_items, 1) = 11
  /\ calls = <<>>

IsPubData(c) == c.fn = "sm_input_event" /\ c.evt = "EVT_PUB_DATA"

IsPublish(c) == c.fn = "knot_cloud_publish_data"

\* C15: when a list of sensor ids is published in ONLINE (a REQUEST from the
\* cloud, the config timer of a sensor), the publish calls are, in list
\* order, one for each id of the list the registry holds, each carrying that
\* sensor's current value; ids the registry does not hold are skipped; a
\* publish that fails is made once and the ids after it are still published;
\* no data item changes.
C15_PublishDataList ==
  [][ ( /\ sm_state = "ONLINE"
        /\ \/ last_op'.op = "on_config_timeout"
           \/ /\ last_op'.op = "on_cloud_receive"
              /\ last_op'.kind = "REQUEST_MSG"
              /\ ~last_op'.flag )
      => LET held == SelectSeq(last_op'.list,
                               LAMBDA x : device_data_item_lookup(Cur, x)
                                            # <<>>)
             pubs == SelectSeq(calls', IsPublish)
         IN /\ [i \in 1..Len(pubs) |-> pubs[i].list[1]] = held
            /\ \A i \in 1..Len(pubs) :
                 pubs[i].val = CurrentVal(data_items, held[i])
            /\ data_items' = data_items ]_vars

\* a REQUEST for <<128, 2, 1>>: 128 is not declared, the publish of 2 fails,
\* 1 is still published, with the value 2 it read
C15_Witness ==
  /\ last_op.op = "on_cloud_receive"
  /\ last_op.kind = "REQUEST_MSG"
  /\ last_op.list = <<128, 2, 1>>
  /\ LET pubs == SelectSeq(calls, IsPublish) IN
     /\ Len(pubs) = 2
     /\ pubs[1].list = <<2>> /\ pubs[1].rc < 0
     /\ pubs[2].list = <<1>> /\ pubs[2].rc = 0 /\ pubs[2].val = 2

IsReadiness(c) ==
  c.fn = "sm_input_event" /\ c.evt \in {"EVT_READY", "EVT_NOT_READY"}

BothUp(mask) == mask = CONNECTED_MASK

\* C16: every link notification hands the state machine one READY or
\* NOT_READY event before it returns, and the state machine has acted on it
\* by then (NOT_READY: it is DISCONNECTED; READY while DISCONNECTED: it has
\* left DISCONNECTED); the combined readiness changes only in a notification,
\* which delivers the event of the new readiness; no other handler emits
\* READY or NOT_READY.
C16_EveryEdgeDelivered ==
  [][ LET rdy == SelectSeq(calls', IsReadiness) IN
      /\ last_op'.op \in ConnOps =>
           /\ Len(rdy) = 1
           /\ rdy[1].evt = IF BothUp(conn_mask') THEN "EVT_READY"
                           ELSE "EVT_NOT_READY"
           /\ rdy[1].evt = "EVT_NOT_READY" => sm_state' = "DISCONNECTED"
           /\ (rdy[1].evt = "EVT_READY" /\ sm_state = "DISCONNECTED")
                => sm_state' \in {"REGISTERING", "AUTHENTICATING"}
      /\ BothUp(conn_mask') # BothUp(conn_mask) => last_op'.op \in ConnOps
      /\ last_op'.op \notin ConnOps => rdy = <<>> ]_vars

\* the Modbus link drops while the device is ONLINE: NOT_READY reaches the
\* state machine, which stops the config service
C16_Witness ==
  /\ last_op.op = "on_modbus_disconnected"
  /\ conn_mask = CLOUD
  /\ sm_state = "DISCONNECTED"
  /\ CallNames(calls) = <<"poll_stop", "sm_input_event", "config_stop">>

\* the evaluator said "publish" for `sid` on the value `v` during the calls `cs`
Approved(cs, sid, v) ==
  \E i \in 1..Len(cs) : /\ cs[i].fn = "config_check_value"
                         /\ cs[i].list = <<sid>>
                         /\ cs[i].val = v
                         /\ cs[i].rc > 0

\* C17: a data item enters the registry with the sent value 0; afterwards its
\* sent value changes only in a poll tick of that sensor in which the
\* evaluator returned "publish", and the new sent value is the current value
\* the evaluator was given; no other handler (cloud message, snapshot, config
\* timer, link notification, timeout) changes it.
C17_SentOnlyApproved ==
  [][ \A sid \in SensorIds :
        LET old == l_hashmap_lookup(data_items, sid)
            new == l_hashmap_lookup(data_items', sid)
        IN /\ (old = <<>> /\ new # <<>>) => new[1].sent_val = 0
           /\ (old # <<>> /\ new # <<>> /\ new[1].sent_val # old[1].sent_val)
                => /\ last_op'.op = "on_modbus_poll_receive"
                   /\ last_op'.list = <<sid>>
                   /\ new[1].sent_val = new[1].current_val
                   /\ Approved(calls', sid, new[1].sent_val) ]_vars

\* the snapshot published sensor 2's current value 1, which the evaluator
\* never approved (below the threshold): its sent value is still 0, while
\* sensor 1's sent value is the approved 2
C17_Witness ==
  /\ last_op.op = "on_cloud_receive"
  /\ last_op.kind = "SCHEMA_MSG"
  /\ \E i \in 1..Len(calls) : /\ calls[i].fn = "knot_cloud_publish_data"
                              /\ calls[i].list = <<2>>
                              /\ calls[i].val = 1
  /\ SentVal(data_items, 2) = 0
  /\ SentVal(data_items, 1) = 2

IsPollSwitch(c) == c.fn \in {"poll_start", "poll_stop"}

\* C18: on_modbus_connected starts the poller and then emits its READY or
\* NOT_READY event; on_modbus_disconnected stops the poller and then emits
\* NOT_READY; after either the poller runs if and only if the MODBUS bits are
\* set.  on_cloud_connected and on_cloud_disconnected call neither poll_start
\* nor poll_stop and leave the poller as it was.
C18_PollerFollowsModbus ==
  [][ /\ last_op'.op = "on_modbus_connected" =>
           /\ calls'[1].fn = "poll_start"
           /\ IsReadiness(calls'[2])
           /\ poll_running' /\ BitsSet(conn_mask', MODBUS)
      /\ last_op'.op = "on_modbus_disconnected" =>
           /\ calls'[1].fn = "poll_stop"
           /\ calls'[2].fn = "sm_input_event"
           /\ calls'[2].evt = "EVT_NOT_READY"
           /\ ~poll_running' /\ BitsClear(conn_mask', MODBUS)
      /\ last_op'.op \in {"on_cloud_connected", "on_cloud_disconnected"} =>
           /\ SelectSeq(calls', IsPollSwitch) = <<>>
           /\ poll_running' = poll_running ]_vars

\* the cloud link drops while the device is ONLINE: the state machine leaves
\* ONLINE and the poller keeps running
C18_Witness ==
  /\ last_op.op = "on_cloud_disconnected"
  /\ conn_mask = MODBUS
  /\ poll_running
  /\ CallNames(calls) = <<"sm_input_event", "config_stop">>

\* C19: a device_store_credentials_on_file whose store write fails returns an
\* error and leaves the in-memory token (hence device_has_thing_token) and
\* the credential file as they were; one whose write succeeds returns 0,
\* leaves the pair (id, token) in the file and the in-memory token equal to
\* the token in the file.
C19_TokenAfterPersist ==
  [][ last_op'.op = "device_store_credentials_on_file" =>
        IF last_op'.flag
        THEN /\ last_op'.ret = 0
             /\ creds_file' = <<[id |-> id, token |-> last_op'.list]>>
             /\ token' = creds_file'[1].token
             /\ token' # <<>>
        ELSE /\ last_op'.ret < 0
             /\ token' = token
             /\ (token' # <<>>) = device_has_thing_token(Cur)
             /\ creds_file' = creds_file ]_vars

\* a store that failed on a device without a token: the device still has no
\* token, although a token was persisted and cleared before
C19_Witness ==
  /\ last_op.op = "device_store_credentials_on_file"
  /\ ~last_op.flag
  /\ last_op.ret < 0
  /\ Len(last_op.list) = KNOT_PROTOCOL_TOKEN_LEN
  /\ ~device_has_thing_token(Cur)
  /\ creds_file # <<>>

\* the slot holds a timer that has expired and was not armed again
ExpiredInSlot == msg_to # 0 /\ ~timeouts[msg_to].armed

IsTimeoutEvt(c) == c.fn = "sm_input_event" /\ c.evt = "EVT_TIMEOUT"

\* C20: an expiry of the handshake timer hands the state machine one TIMEOUT
\* event and leaves the expired timer in the slot; no other operation emits
\* TIMEOUT.  While the expired timer is in the slot, device_msg_timeout_create
\* changes nothing, device_msg_timeout_modify arms that same timer again, and
\* device_msg_timeout_remove empties the slot, after which
\* device_msg_timeout_create arms a new timer.
C20_ExpiredTimerKeepsSlot ==
  [][ /\ last_op'.op = "on_msg_timeout" =>
           /\ Len(SelectSeq(calls', IsTimeoutEvt)) = 1
           /\ IsTimeoutEvt(calls'[1])
           /\ msg_to' = msg_to
           /\ msg_to' = last_op'.val
           /\ DOMAIN timeouts' = DOMAIN timeouts
      /\ last_op'.op # "on_msg_timeout" =>
           SelectSeq(calls', IsTimeoutEvt) = <<>>
      /\ (ExpiredInSlot /\ last_op'.op = "device_msg_timeout_create") =>
           /\ msg_to' = msg_to
           /\ timeouts' = timeouts
      /\ (ExpiredInSlot /\ last_op'.op = "device_msg_timeout_modify") =>
           /\ msg_to' = msg_to
           /\ timeouts'[msg_to] = [secs |-> last_op'.val, armed |-> TRUE]
      /\ (ExpiredInSlot /\ last_op'.op = "device_msg_timeout_remove") =>
           msg_to' = 0
      /\ (msg_to = 0 /\ last_op'.op = "device_msg_timeout_create") =>
           /\ msg_to' # 0
           /\ timeouts'[msg_to'] = [secs |-> last_op'.val, armed |-> TRUE]
    ]_vars

\* the timer in the slot has just expired: TIMEOUT was delivered and the
\* timer, no longer armed, is still in the slot
C20_Witness ==
  /\ last_op.op = "on_msg_timeout"
  /\ msg_to = last_op.val
  /\ ExpiredInSlot
  /\ CallNames(calls) = <<"sm_input_event">>
  /\ calls[1].evt = "EVT_TIMEOUT"

====
